---- MODULE Spec2Model ----
(***************************************************************************)
(* Model of the neighbor-list preprocessing (apax/data/preprocessing.py),   *)
(* of the Gaussian moment descriptor (gmnn_jax/layers/descriptor) and of    *)
(* the prefetch generator, and of the outer loop of the NVT molecular       *)
(* dynamics driver (gmnn_jax/md/nvt.py).                                    *)
(*                                                                          *)
(* Lengths are integers on a grid of half length units: the value 2 stands  *)
(* for the length 1.0, so the cutoff 1.5 is 3, the cutoff 2.5 is 5 and a     *)
(* cubic box of side 2.0 has side 4.  Distances are compared by their        *)
(* squares.  Atom indices are 0-based as in the source.                      *)
(***************************************************************************)
EXTENDS Integers, Sequences, FiniteSets, TLC

VARIABLES
    \* dataset_neighborlist
    positions,      \* list of per-structure position arrays (atom index -> vector)
    box,            \* list of per-structure 3x3 box matrices (rows = lattice vectors)
    atoms_list,     \* list of per-structure Atoms objects (positions, cell, pbc)
    r_max,          \* the cutoff
    i,              \* number of structures the loop has processed
    idx_list,       \* result: per structure, the array [idxs_i, idxs_j]
    offset_list,    \* result: per structure, the Cartesian offsets, one row per pair
    cell,           \* the shrink-wrapped cell of the last non-periodic structure
    cell_origin,    \* its origin
    lattice_S,      \* the lattice shifts "S" the library returned for the last periodic structure
    pc,             \* "loop" while dataset_neighborlist iterates, "done" after return
    \* GaussianMomentDescriptor.__call__
    n_atoms,        \* self.n_atoms
    n_radial,       \* self.n_radial
    neighbor,       \* neighbor.idx: <<first indices, second indices>>, one column per pair
    radial_function,\* the radial weights, one row per pair, one entry per channel
    moments,        \* the accumulated moments, per atom
    contr,          \* the arrays contr_0 .. contr_7
    gaussian_moments, \* the returned descriptor
    dpc,            \* the position in __call__
    \* prefetch_to_single_device
    items,          \* what the iterator yields in all, in order
    iterator,       \* what the iterator has still to yield
    size,           \* the size argument
    queue,          \* the deque
    enqueue_n,      \* what is left of the running enqueue(n)
    yielded,        \* what the generator has handed to its consumer, in order
    gpc,            \* the position in the generator
    \* run_nvt
    n_steps,        \* the n_steps argument
    n_inner,        \* the n_inner argument
    extra_capacity, \* the extra_capacity argument
    n_outer,        \* int(n_steps // n_inner)
    state,          \* the simulation state: position and force
    new_state,      \* what the last call of sim returned as state
    nvt_neighbor,   \* the local "neighbor": the neighbor list of the simulation
    step,           \* the step counter
    traj,           \* the frames written to the trajectory, in order
    npc             \* the position in run_nvt

nlvars == <<positions, box, atoms_list, r_max, i, idx_list, offset_list,
            cell, cell_origin, lattice_S, pc>>

descvars == <<n_atoms, n_radial, neighbor, radial_function, moments, contr,
              gaussian_moments, dpc>>

pfvars == <<items, iterator, size, queue, enqueue_n, yielded, gpc>>

nvtvars == <<n_steps, n_inner, extra_capacity, n_outer, state, new_state,
             nvt_neighbor, step, traj, npc>>

vars == <<nlvars, descvars, pfvars, nvtvars>>

----------------------------------------------------------------------------
\* Bounds of the model.

\* Largest number of items the iterator yields.
MaxItems == 4
\* Largest size of the prefetch buffer.
MaxSize == 3
\* Largest number of atoms the descriptor is built for.
MaxDescAtoms == 2
\* Largest number of pairs in the neighbor list handed to the descriptor.
MaxPairs == 2
\* Largest number of radial channels.
MaxRadial == 2
\* Largest number of atoms in a structure.
MaxAtoms == 2
\* Largest number of structures in a dataset.
MaxStructs == 2
\* Periodic images are enumerated with lattice shifts in -MaxShift..MaxShift per axis.
MaxShift == 2
\* Largest n_steps handed to run_nvt.
MaxSteps == 3
\* Largest n_inner handed to run_nvt.
MaxInner == 2
\* Positions and forces of the simulation state are drawn from 0..MaxCoord.
MaxCoord == 1
\* Largest extra_capacity handed to run_nvt.
MaxExtra == 1

----------------------------------------------------------------------------
\* Vectors and matrices.

Axes == 1..3
ZeroVec == <<0, 0, 0>>
VAdd(u, v) == [k \in Axes |-> u[k] + v[k]]
VSub(u, v) == [k \in Axes |-> u[k] - v[k]]
VNeg(u) == [k \in Axes |-> 0 - u[k]]
Norm2(u) == u[1] * u[1] + u[2] * u[2] + u[3] * u[3]
Max2(a, b) == IF a >= b THEN a ELSE b
SetMin(S) == CHOOSE x \in S : \A y \in S : x <= y
SetMax(S) == CHOOSE x \in S : \A y \in S : x >= y

\* np.matmul(offsets, box) for one row S of offsets: the row vector S times the matrix.
matmul_wrong_side(S, M) == [k \in Axes |-> M[k][1] * S[1] + M[k][2] * S[2] + M[k][3] * S[3]]
matmul(S, M) == [k \in Axes |-> S[1] * M[1][k] + S[2] * M[2][k] + S[3] * M[3][k]]

NAtoms(position) == Cardinality(DOMAIN position)
AtomsOf(position) == DOMAIN position

----------------------------------------------------------------------------
\* get_shrink_wrapped_cell(positions): the cell (its diagonal; every off-diagonal
\* entry of np.diag(...) is zero) and the cell origin.

\* 10e-1, the extent below which a diagonal entry is set to 1.0
ClampExtent == 2
\* the 1.0 written into a clamped diagonal entry
ClampValue == 2
\* the 1 added to every diagonal entry
Padding == 2

rmin_of(position) == [k \in Axes |-> SetMin({position[a][k] : a \in AtomsOf(position)})]
rmax_of(position) == [k \in Axes |-> SetMax({position[a][k] : a \in AtomsOf(position)})]

Diag(d) == [r \in Axes |-> [c \in Axes |-> IF r = c THEN d[r] ELSE 0]]

shrink_no_clamp(position) ==
    LET ext == VSub(rmax_of(position), rmin_of(position))
    IN  [cell |-> Diag([k \in Axes |-> ext[k] + Padding]),
         cell_origin |-> rmin_of(position)]

get_shrink_wrapped_cell(position) ==
    LET ext == VSub(rmax_of(position), rmin_of(position))
        clamped == [k \in Axes |-> IF ext[k] < ClampExtent THEN ClampValue ELSE ext[k]]
    IN  [cell |-> Diag([k \in Axes |-> clamped[k] + Padding]),
         cell_origin |-> rmin_of(position)]

----------------------------------------------------------------------------
\* matscipy.neighbours.neighbour_list, as dataset_neighborlist calls it.
\* The result lists the triples <<i, j, S>>: atom i has the neighbor j in the
\* periodic image shifted by the integer lattice vector S, when
\* |r_j + S.cell - r_i| < cutoff; the pair of an atom with itself in the home
\* image (i = j, S = 0) is no neighbor.  Without periodicity only S = 0 exists and
\* the search is restricted to the atoms inside the cell handed in.  The library
\* returns the pairs sorted by first atom; the order within one first atom is
\* fixed here as (j, S) ascending.

ShiftWidth(pbc) == IF pbc THEN 2 * MaxShift + 1 ELSE 1
ShiftLow(pbc) == IF pbc THEN 0 - MaxShift ELSE 0

\* The c-th candidate triple (c from 1) of a structure of n atoms.
Candidate(c, n, pbc) ==
    LET W == ShiftWidth(pbc)
        lo == ShiftLow(pbc)
        q == c - 1
    IN  << q \div (n * W * W * W),
           (q \div (W * W * W)) % n,
           << ((q \div (W * W)) % W) + lo, ((q \div W) % W) + lo, (q % W) + lo >> >>

InCell(r, cellm, origin) ==
    \A k \in Axes : origin[k] <= r[k] /\ r[k] <= origin[k] + cellm[k][k]

neighbour_list(position, cutoff, cellm, origin, pbc) ==
    LET n == NAtoms(position)
        W == ShiftWidth(pbc)
        candidates == [c \in 1..(n * n * W * W * W) |-> Candidate(c, n, pbc)]
        IsNeighbour(t) ==
            /\ pbc \/ (InCell(position[t[1]], cellm, origin)
                         /\ InCell(position[t[2]], cellm, origin))
            /\ ~(t[1] = t[2] /\ t[3] = ZeroVec)
            /\ Norm2(VSub(VAdd(position[t[2]], matmul(t[3], cellm)), position[t[1]]))
                   < cutoff * cutoff
    IN  SelectSeq(candidates, IsNeighbour)

----------------------------------------------------------------------------
\* dataset_neighborlist: the two branches of the loop body.

\* 1e-6: on the integer grid an entry is below it exactly when it is below 1.
BoxEps == 1

\* np.all(box[i] < 1e-6)
all_below_eps(bx) == \A r \in Axes : \A c \in Axes : bx[r][c] < BoxEps

\* the branch taken by "if np.all(box[i] < 1e-6)"
non_periodic_swapped(bx) == ~all_below_eps(bx)
non_periodic(bx) == all_below_eps(bx)

\* np.full([n_neighbors, 3], 0)
full_ones(n_neighbors) == [p \in 1..n_neighbors |-> <<1, 1, 1>>]
full_zero(n_neighbors) == [p \in 1..n_neighbors |-> ZeroVec]

\* np.array([idxs_i, idxs_j]): row 1 holds the first indices, row 2 the second.
index_array_swapped(pairs) ==
    <<[p \in 1..Len(pairs) |-> pairs[p][2]], [p \in 1..Len(pairs) |-> pairs[p][1]]>>
index_array(pairs) ==
    <<[p \in 1..Len(pairs) |-> pairs[p][1]], [p \in 1..Len(pairs) |-> pairs[p][2]]>>

\* the "S" array of the library's result
shift_array(pairs) == [p \in 1..Len(pairs) |-> pairs[p][3]]

non_periodic_branch(position, cutoff) ==
    LET sw == get_shrink_wrapped_cell(position)
        pairs == neighbour_list(position, cutoff, sw.cell, sw.cell_origin, FALSE)
    IN  [neighbor_idxs |-> index_array(pairs), offsets |-> full_zero(Len(pairs))]

\* offsets = np.matmul(offsets, box[i])
cartesian_offsets_untransformed(shifts, bx) == shifts
cartesian_offsets(shifts, bx) == [p \in 1..Len(shifts) |-> matmul(shifts[p], bx)]

periodic_branch_half_list(atoms, bx, cutoff) ==
    LET full == neighbour_list(atoms.positions, cutoff, atoms.cell, ZeroVec, atoms.pbc)
        HalfOnly(t) == t[1] <= t[2]
        pairs == SelectSeq(full, HalfOnly)
    IN  [neighbor_idxs |-> index_array(pairs),
         S |-> shift_array(pairs),
         offsets |-> cartesian_offsets(shift_array(pairs), bx)]

periodic_branch(atoms, bx, cutoff) ==
    LET pairs == neighbour_list(atoms.positions, cutoff, atoms.cell, ZeroVec, atoms.pbc)
    IN  [neighbor_idxs |-> index_array(pairs),
         S |-> shift_array(pairs),
         offsets |-> cartesian_offsets(shift_array(pairs), bx)]

\* One pass of the loop body for the structure at list position k (1-based).
loop_body(position, bx, atoms, cutoff) ==
    IF non_periodic(bx) THEN non_periodic_branch(position, cutoff)
                        ELSE periodic_branch(atoms, bx, cutoff)

----------------------------------------------------------------------------
\* The datasets the model runs on.

PointList == << <<0, 0, 0>>, <<2, 0, 0>>, <<1, 3, 0>> >>

ZeroBox == Diag(ZeroVec)
CubicBox == Diag(<<4, 4, 4>>)
TriclinicBox == << <<4, 0, 0>>, <<2, 4, 0>>, <<0, 0, 4>> >>
Boxes == {ZeroBox, CubicBox, TriclinicBox}
\* A structure without a lattice carries the all-zero box.
HasLattice(bx) == bx # ZeroBox

Cutoffs == {3, 5}

\* The k-th smallest element of a set of numbers, k from 1.
KthOf(T, k) == CHOOSE x \in T : Cardinality({y \in T : y < x}) = k - 1

PositionArrays ==
    {[a \in 0..(Cardinality(T) - 1) |-> PointList[KthOf(T, a + 1)]] :
        T \in {U \in SUBSET (1..Len(PointList)) :
                  Cardinality(U) >= 1 /\ Cardinality(U) <= MaxAtoms}}

\* A structure: its positions, its box, and whether its Atoms object is declared
\* periodic.  A structure with a lattice is periodic; one with the all-zero box
\* may carry either flag.
Structures ==
    {s \in [positions : PositionArrays, box : Boxes, pbc : BOOLEAN] :
        HasLattice(s.box) => s.pbc}

SeqsUpTo(S, n) == UNION {[1..m -> S] : m \in 1..n}

Datasets == SeqsUpTo(Structures, MaxStructs)

\* The Atoms object of a structure.
AtomsObject(s) == [positions |-> s.positions, cell |-> s.box, pbc |-> s.pbc]

\* The loop body's result for every structure and cutoff of the model, computed
\* once: <<structure, cutoff, result>>.
LoopBodyTable ==
    {<<s, c, loop_body(s.positions, s.box, AtomsObject(s), c)>> :
        s \in Structures, c \in Cutoffs}

loop_body_of(position, bx, atoms, cutoff) ==
    (CHOOSE t \in LoopBodyTable :
        /\ t[1] = [positions |-> position, box |-> bx, pbc |-> atoms.pbc]
        /\ t[2] = cutoff)[3]

\* The descriptor is not running.
DescIdle ==
    /\ n_atoms = 0
    /\ n_radial = 0
    /\ neighbor = <<<<>>, <<>>>>
    /\ radial_function = <<>>
    /\ moments = <<>>
    /\ contr = <<>>
    /\ gaussian_moments = <<>>
    /\ dpc = "idle"

\* The prefetch generator is not running.
PrefetchIdle ==
    /\ items = <<>>
    /\ iterator = <<>>
    /\ size = 0
    /\ queue = <<>>
    /\ enqueue_n = 0
    /\ yielded = <<>>
    /\ gpc = "idle"

\* run_nvt is not running.
NvtIdle ==
    /\ n_steps = 0
    /\ n_inner = 0
    /\ extra_capacity = 0
    /\ n_outer = 0
    /\ state = <<>>
    /\ new_state = <<>>
    /\ nvt_neighbor = <<>>
    /\ step = 0
    /\ traj = <<>>
    /\ npc = "idle"

NLInit ==
    /\ \E ds \in Datasets :
        /\ positions = [k \in DOMAIN ds |-> ds[k].positions]
        /\ box = [k \in DOMAIN ds |-> ds[k].box]
        /\ atoms_list = [k \in DOMAIN ds |-> AtomsObject(ds[k])]
    /\ r_max \in Cutoffs
    /\ i = 0
    /\ idx_list = <<>>
    /\ offset_list = <<>>
    /\ cell = ZeroBox
    /\ cell_origin = ZeroVec
    /\ lattice_S = <<>>
    /\ pc = "loop"
    /\ DescIdle
    /\ PrefetchIdle
    /\ NvtIdle

\* The loop body applied to the structure at list position k (1-based; the
\* source's index i is k - 1).
structure_result(k) == loop_body_of(positions[k], box[k], atoms_list[k], r_max)

\* offset_list.append(offsets); idx_list.append(neighbor_idxs)
list_prepend(list, entry) == <<entry>> \o list
list_append(list, entry) == Append(list, entry)

\* for i, position in enumerate(positions): ... append
LoopStep ==
    /\ pc = "loop"
    /\ i < Len(positions)
    /\ LET k == i + 1
           out == structure_result(k)
       IN  /\ offset_list' = list_append(offset_list, out.offsets)
           /\ idx_list' = list_append(idx_list, out.neighbor_idxs)
           /\ IF non_periodic(box[k])
                 THEN /\ cell' = get_shrink_wrapped_cell(positions[k]).cell
                      /\ cell_origin' = get_shrink_wrapped_cell(positions[k]).cell_origin
                      /\ UNCHANGED lattice_S
                 ELSE /\ lattice_S' = out.S
                      /\ UNCHANGED <<cell, cell_origin>>
    /\ i' = i + 1
    /\ UNCHANGED <<positions, box, atoms_list, r_max, pc>>
    /\ UNCHANGED <<descvars, pfvars, nvtvars>>

\* return idx_list, offset_list
Return ==
    /\ pc = "loop"
    /\ i = Len(positions)
    /\ pc' = "done"
    /\ UNCHANGED <<positions, box, atoms_list, r_max, i, idx_list, offset_list,
                   cell, cell_origin, lattice_S>>
    /\ UNCHANGED <<descvars, pfvars, nvtvars>>

NLNext == LoopStep \/ Return

SpecNL == NLInit /\ [][NLNext]_vars

----------------------------------------------------------------------------
\* GaussianMomentDescriptor.__call__.
\*
\* An array is a record [shape, at]: at maps every 0-based index tuple of the
\* shape to the entry there.  The entries of the contractions are kept symbolic:
\* <<c, r, s, t, a>> is the value of contraction c for the channels r, s, t (-1
\* where the contraction has no such axis) and atom a.

RECURSIVE Product(_)
Product(shape) == IF shape = <<>> THEN 1 ELSE Head(shape) * Product(Tail(shape))

RECURSIVE IndexTuples(_)
IndexTuples(shape) ==
    IF shape = <<>> THEN {<<>>}
    ELSE {<<x>> \o rest : x \in 0..(Head(shape) - 1), rest \in IndexTuples(Tail(shape))}

\* Row-major position of an index tuple, and the index tuple of a position.
RECURSIVE Ravel(_, _)
Ravel(idx, shape) ==
    IF shape = <<>> THEN 0
    ELSE Head(idx) * Product(Tail(shape)) + Ravel(Tail(idx), Tail(shape))

RECURSIVE Unravel(_, _)
Unravel(pos, shape) ==
    IF shape = <<>> THEN <<>>
    ELSE <<pos \div Product(Tail(shape))>> \o Unravel(pos % Product(Tail(shape)), Tail(shape))

Drop(seq, n) == SubSeq(seq, n + 1, Len(seq))

\* tril_2d_indices(n): the channel pairs (r, s) with r <= s, and
\* tril_3d_indices(n): the channel triples r <= s <= t, in lexicographic order.
tril_2d_indices(n) ==
    LET all == [c \in 1..(n * n) |-> <<(c - 1) \div n, (c - 1) % n>>]
        Keep(rs) == rs[1] <= rs[2]
    IN  SelectSeq(all, Keep)

tril_3d_indices(n) ==
    LET all == [c \in 1..(n * n * n) |->
                   <<(c - 1) \div (n * n), ((c - 1) \div n) % n, (c - 1) % n>>]
        Keep(rst) == rst[1] <= rst[2] /\ rst[2] <= rst[3]
    IN  SelectSeq(all, Keep)

\* geometric_moments(radial_function, dn, idx, n_atoms): the contribution of
\* pair p is added to the accumulators of atom idx[p].  The rank-0 moment of an
\* atom and channel is the sum of the radial weights of the pairs scattered to
\* the atom; "scattered" lists those pairs, which also carry the moments of
\* rank 1 to 3.
RECURSIVE SumWeights(_, _, _)
SumWeights(ps, weights, r) ==
    IF ps = {} THEN 0
    ELSE LET p == CHOOSE x \in ps : TRUE
         IN  weights[p][r] + SumWeights(ps \ {p}, weights, r)

geometric_moments(weights, idx, natoms, nradial) ==
    [a \in 0..(natoms - 1) |->
        LET mine == {p \in 1..Len(idx) : idx[p] = a}
        IN  [scattered |-> mine,
             zero |-> [r \in 0..(nradial - 1) |-> SumWeights(mine, weights, r)]]]

\* moments = geometric_moments(radial_function, dn, neighbor.idx[1], self.n_atoms)
scatter_index_first(nb) == nb[1]
scatter_index(nb) == nb[2]

\* contr_0 = moments[0]: atoms x channels.
contr_0_array(natoms, nradial) ==
    [shape |-> <<natoms, nradial>>,
     at |-> [x \in IndexTuples(<<natoms, nradial>>) |-> <<0, x[2], -1, -1, x[1]>>]]

\* jnp.einsum("... -> rsa", ...)
einsum_rsa(c, natoms, nradial) ==
    [shape |-> <<nradial, nradial, natoms>>,
     at |-> [x \in IndexTuples(<<nradial, nradial, natoms>>) |-> <<c, x[1], x[2], -1, x[3]>>]]

\* jnp.einsum("... -> rsta", ...)
einsum_rsta(c, natoms, nradial) ==
    [shape |-> <<nradial, nradial, nradial, natoms>>,
     at |-> [x \in IndexTuples(<<nradial, nradial, nradial, natoms>>) |->
                <<c, x[1], x[2], x[3], x[4]>>]]

\* X[tril_i, tril_j] and X[tril_i, tril_j, tril_k]: the leading axes the index
\* tuples address are replaced by one axis over the tuples; the rest is kept.
take(X, tril) ==
    LET k == IF tril = <<>> THEN 0 ELSE Len(tril[1])
        shp == <<Len(tril)>> \o Drop(X.shape, k)
    IN  [shape |-> shp,
         at |-> [x \in IndexTuples(shp) |-> X.at[tril[x[1] + 1] \o Tail(x)]]]

\* np.reshape(X, [m, -1])
reshape(X, m) ==
    LET shp == <<m, Product(X.shape) \div m>>
    IN  [shape |-> shp,
         at |-> [x \in IndexTuples(shp) |-> X.at[Unravel(Ravel(x, shp), X.shape)]]]

\* jnp.transpose(X): the axes reversed.
Reverse(seq) == [k \in 1..Len(seq) |-> seq[Len(seq) + 1 - k]]
transpose(X) ==
    [shape |-> Reverse(X.shape),
     at |-> [x \in IndexTuples(Reverse(X.shape)) |-> X.at[Reverse(x)]]]

\* jnp.concatenate(list, axis=-1) of two-dimensional arrays: row a of the result
\* is the rows a of the arrays, one after the other.
RowOf(X, a) == [f \in 1..X.shape[2] |-> X.at[<<a, f - 1>>]]

RECURSIVE ConcatRows(_, _)
ConcatRows(list, a) ==
    IF list = <<>> THEN <<>> ELSE RowOf(Head(list), a) \o ConcatRows(Tail(list), a)

concatenate(list) == [a \in 0..(list[1].shape[1] - 1) |-> ConcatRows(list, a)]

\* lines 97-102: the triangular index sets applied to contr_1 .. contr_6
reduce(c, X, nradial) ==
    IF c \in {1, 2, 3, 5, 6} THEN take(X, tril_2d_indices(nradial))
    ELSE IF c = 4 THEN take(X, tril_3d_indices(nradial))
    ELSE X

\* lines 88, 104-106: contr_5, contr_6 and contr_7 are reshaped
n_symm01_features(nradial) == Len(tril_2d_indices(nradial)) * nradial

reshaped(c, X, nradial) ==
    IF c \in {5, 6} THEN reshape(X, n_symm01_features(nradial))
    ELSE IF c = 7 THEN reshape(X, nradial * nradial * nradial)
    ELSE X

\* lines 116-125: the list gaussian_moments = [contr_0, ..., contr_7]
moment_list_4_5_swapped(ct) == <<ct[0], ct[1], ct[2], ct[3], ct[5], ct[4], ct[6], ct[7]>>
moment_list(ct) == <<ct[0], ct[1], ct[2], ct[3], ct[4], ct[5], ct[6], ct[7]>>

\* The inputs of the descriptor: the neighbor lists over the atoms, without
\* pairs of an atom with itself, and the radial weights of the pairs.
DescPairs(natoms) ==
    {ab \in (0..(natoms - 1)) \X (0..(natoms - 1)) : ab[1] # ab[2]}

DescNeighborLists(natoms) ==
    UNION {[1..m -> DescPairs(natoms)] : m \in 0..MaxPairs}

RadialRows(nradial) ==
    {[r \in 0..(nradial - 1) |-> 1], [r \in 0..(nradial - 1) |-> r + 2]}

DescInit ==
    /\ n_atoms \in 1..MaxDescAtoms
    /\ n_radial \in 1..MaxRadial
    /\ \E nl \in DescNeighborLists(n_atoms) :
          /\ neighbor = <<[p \in 1..Len(nl) |-> nl[p][1]], [p \in 1..Len(nl) |-> nl[p][2]]>>
          /\ radial_function \in [1..Len(nl) -> RadialRows(n_radial)]
    /\ moments = <<>>
    /\ contr = <<>>
    /\ gaussian_moments = <<>>
    /\ dpc = "moments"

\* line 71
Moments ==
    /\ dpc = "moments"
    /\ moments' = geometric_moments(radial_function, scatter_index(neighbor),
                                    n_atoms, n_radial)
    /\ dpc' = "einsum"
    /\ UNCHANGED <<n_atoms, n_radial, neighbor, radial_function, contr, gaussian_moments>>
    /\ UNCHANGED <<nlvars, pfvars, nvtvars>>

\* lines 73-86
Einsum ==
    /\ dpc = "einsum"
    /\ contr' = [c \in 0..7 |->
                    IF c = 0 THEN contr_0_array(n_atoms, n_radial)
                    ELSE IF c \in {1, 2, 3} THEN einsum_rsa(c, n_atoms, n_radial)
                    ELSE einsum_rsta(c, n_atoms, n_radial)]
    /\ dpc' = "reduce"
    /\ UNCHANGED <<n_atoms, n_radial, neighbor, radial_function, moments, gaussian_moments>>
    /\ UNCHANGED <<nlvars, pfvars, nvtvars>>

\* lines 88-102
Reduce ==
    /\ dpc = "reduce"
    /\ contr' = [c \in 0..7 |-> reduce(c, contr[c], n_radial)]
    /\ dpc' = "reshape"
    /\ UNCHANGED <<n_atoms, n_radial, neighbor, radial_function, moments, gaussian_moments>>
    /\ UNCHANGED <<nlvars, pfvars, nvtvars>>

\* lines 104-106
Reshape ==
    /\ dpc = "reshape"
    /\ contr' = [c \in 0..7 |-> reshaped(c, contr[c], n_radial)]
    /\ dpc' = "transpose"
    /\ UNCHANGED <<n_atoms, n_radial, neighbor, radial_function, moments, gaussian_moments>>
    /\ UNCHANGED <<nlvars, pfvars, nvtvars>>

\* lines 108-114
Transpose ==
    /\ dpc = "transpose"
    /\ contr' = [c \in 0..7 |-> IF c = 0 THEN contr[c] ELSE transpose(contr[c])]
    /\ dpc' = "concatenate"
    /\ UNCHANGED <<n_atoms, n_radial, neighbor, radial_function, moments, gaussian_moments>>
    /\ UNCHANGED <<nlvars, pfvars, nvtvars>>

\* lines 116-129
Concatenate ==
    /\ dpc = "concatenate"
    /\ gaussian_moments' = concatenate(moment_list(contr))
    /\ dpc' = "done"
    /\ UNCHANGED <<n_atoms, n_radial, neighbor, radial_function, moments, contr>>
    /\ UNCHANGED <<nlvars, pfvars, nvtvars>>

\* dataset_neighborlist is not running.
NLIdle ==
    /\ positions = <<>>
    /\ box = <<>>
    /\ atoms_list = <<>>
    /\ r_max = 0
    /\ i = 0
    /\ idx_list = <<>>
    /\ offset_list = <<>>
    /\ cell = ZeroBox
    /\ cell_origin = ZeroVec
    /\ lattice_S = <<>>
    /\ pc = "idle"

DescStart == DescInit /\ NLIdle /\ PrefetchIdle /\ NvtIdle

DescNext ==
    \/ Moments
    \/ Einsum
    \/ Reduce
    \/ Reshape
    \/ Transpose
    \/ Concatenate

SpecDesc == DescStart /\ [][DescNext]_vars

----------------------------------------------------------------------------
\* prefetch_to_single_device(iterator, size).

\* jax.tree_util.tree_map(_prefetch, data): the item with its leaves turned into
\* device arrays.
tree_map_prefetch(data) == [array |-> data]

\* enqueue(1) in the while loop
refill_two == 1 + 1
refill == 1

PrefetchInit ==
    /\ \E len \in 0..MaxItems : items = [k \in 1..len |-> k]
    /\ iterator = items
    /\ size \in 0..MaxSize
    /\ queue = <<>>
    /\ enqueue_n = size
    /\ yielded = <<>>
    /\ gpc = "enqueue"
    /\ NLIdle
    /\ DescIdle
    /\ NvtIdle

\* for data in itertools.islice(iterator, n): queue.append(...), one item
EnqueueItem ==
    /\ gpc = "enqueue"
    /\ enqueue_n > 0
    /\ iterator # <<>>
    /\ queue' = Append(queue, tree_map_prefetch(Head(iterator)))
    /\ iterator' = Tail(iterator)
    /\ enqueue_n' = enqueue_n - 1
    /\ UNCHANGED <<items, size, yielded, gpc>>
    /\ UNCHANGED <<nlvars, descvars, nvtvars>>

\* the islice is exhausted: n items were taken or the iterator ended
EnqueueEnd ==
    /\ gpc = "enqueue"
    /\ (enqueue_n = 0 \/ iterator = <<>>)
    /\ gpc' = "while"
    /\ enqueue_n' = 0
    /\ UNCHANGED <<items, iterator, size, queue, yielded>>
    /\ UNCHANGED <<nlvars, descvars, nvtvars>>

\* while queue: yield queue.popleft()
Yield ==
    /\ gpc = "while"
    /\ queue # <<>>
    /\ yielded' = Append(yielded, Head(queue))
    /\ queue' = Tail(queue)
    /\ gpc' = "suspended"
    /\ UNCHANGED <<items, iterator, size, enqueue_n>>
    /\ UNCHANGED <<nlvars, descvars, nvtvars>>

\* the consumer asks for the next item: the generator resumes with enqueue(1)
Resume ==
    /\ gpc = "suspended"
    /\ enqueue_n' = refill
    /\ gpc' = "enqueue"
    /\ UNCHANGED <<items, iterator, size, queue, yielded>>
    /\ UNCHANGED <<nlvars, descvars, nvtvars>>

\* while queue: the queue is empty, the generator ends
Stop ==
    /\ gpc = "while"
    /\ queue = <<>>
    /\ gpc' = "done"
    /\ UNCHANGED <<items, iterator, size, queue, enqueue_n, yielded>>
    /\ UNCHANGED <<nlvars, descvars, nvtvars>>

PrefetchNext == EnqueueItem \/ EnqueueEnd \/ Yield \/ Resume \/ Stop

SpecPrefetch == PrefetchInit /\ [][PrefetchNext]_vars

\* The consumer iterates the generator to its end (a for loop over it), so no
\* step that can be taken is put off forever.
SpecPrefetchDriven == SpecPrefetch /\ WF_vars(PrefetchNext)

----------------------------------------------------------------------------
\* run_nvt: the outer loop of the NVT driver.
\* A simulation state is its position and its force, both single integers.  The
\* integrator (apply_fn) and the neighbor list (neighbor_fn) belong to jax_md:
\* what one integration step produces and whether one update of the neighbor list
\* overflows its buffer are drawn, one draw per inner step.

States == [position : 0..MaxCoord, force : 0..MaxCoord]
Draws == [state : States, overflow : BOOLEAN]

\* neighbor_fn.allocate(position, extra_capacity=extra): a list built for the
\* position, with nothing overflowed.
allocate(position, extra) ==
    [position |-> position, extra_capacity |-> extra, did_buffer_overflow |-> FALSE]

\* neighbor.update(position): the list follows the position within the capacity
\* it was allocated with; an overflow, once flagged, stays flagged.
update(nb, position, overflow) ==
    [position |-> position,
     extra_capacity |-> nb.extra_capacity,
     did_buffer_overflow |-> nb.did_buffer_overflow \/ overflow]

\* body_fn: the neighbor list is updated with the position before the step, then
\* the integrator gives the next state.
body_fn(val, draw) ==
    LET nb == update(val[2], val[1].position, draw.overflow)
    IN  <<draw.state, nb>>

\* jax.lax.fori_loop(lower, upper, body_fn, val); draws[k] belongs to inner step k
RECURSIVE fori_loop(_, _, _, _)
fori_loop(lower, upper, val, draws) ==
    IF lower >= upper
        THEN val
        ELSE fori_loop(lower + 1, upper, body_fn(val, draws[lower + 1]), draws)

\* sim(state, neighbor)
sim(st, nb, draws) == fori_loop(0, n_inner, <<st, nb>>, draws)

\* neighbor.did_buffer_overflow, as the if statement reads it
did_buffer_overflow_negated(nb) == ~nb.did_buffer_overflow
did_buffer_overflow(nb) == nb.did_buffer_overflow

\* Atoms(atomic_numbers, state.position, cell=box) with the calculator holding
\* state.force
new_atoms(st) == [positions |-> st.position, forces |-> st.force]

\* traj.write(new_atoms)
traj_write(frames, atoms) == Append(frames, atoms)

\* The state of run_nvt when it reaches the while loop: restart is forced to
\* False, so step is 0 and the state comes from init_fn.
NvtInit ==
    /\ n_steps \in 0..MaxSteps
    /\ n_inner \in 1..MaxInner
    /\ extra_capacity \in 0..MaxExtra
    /\ n_outer = n_steps \div n_inner
    /\ state \in States
    /\ new_state = <<>>
    /\ nvt_neighbor = allocate(state.position, extra_capacity)
    /\ step = 0
    /\ traj = <<>>
    /\ npc = "while"
    /\ NLIdle
    /\ DescIdle
    /\ PrefetchIdle

\* while step < n_outer: new_state, neighbor = sim(state, neighbor)
Sim ==
    /\ npc = "while"
    /\ step < n_outer
    /\ \E draws \in [1..n_inner -> Draws] :
          LET out == sim(state, nvt_neighbor, draws)
          IN  /\ new_state' = out[1]
              /\ nvt_neighbor' = out[2]
    /\ npc' = "if"
    /\ UNCHANGED <<n_steps, n_inner, extra_capacity, n_outer, state, step, traj>>
    /\ UNCHANGED <<nlvars, descvars, pfvars>>

\* if neighbor.did_buffer_overflow: neighbor = neighbor_fn.allocate(state.position)
Reallocate ==
    /\ npc = "if"
    /\ did_buffer_overflow(nvt_neighbor)
    /\ nvt_neighbor' = allocate(state.position, 0)
    /\ npc' = "while"
    /\ UNCHANGED <<n_steps, n_inner, extra_capacity, n_outer, state, new_state,
                   step, traj>>
    /\ UNCHANGED <<nlvars, descvars, pfvars>>

\* else: state = new_state; step += 1; traj.write(new_atoms)
Advance ==
    /\ npc = "if"
    /\ ~did_buffer_overflow(nvt_neighbor)
    /\ state' = new_state
    /\ step' = step + 1
    /\ traj' = traj_write(traj, new_atoms(state'))
    /\ npc' = "while"
    /\ UNCHANGED <<n_steps, n_inner, extra_capacity, n_outer, new_state,
                   nvt_neighbor>>
    /\ UNCHANGED <<nlvars, descvars, pfvars>>

\* the loop test fails: traj.close()
Close ==
    /\ npc = "while"
    /\ ~(step < n_outer)
    /\ npc' = "done"
    /\ UNCHANGED <<n_steps, n_inner, extra_capacity, n_outer, state, new_state,
                   nvt_neighbor, step, traj>>
    /\ UNCHANGED <<nlvars, descvars, pfvars>>

NvtNext == Sim \/ Reallocate \/ Advance \/ Close

SpecNvt == NvtInit /\ [][NvtNext]_vars

----------------------------------------------------------------------------
\* Properties of dataset_neighborlist, stated on its results.

Processed == 1..Len(idx_list)
PairsOf(k) == 1..Len(offset_list[k])
FirstIdx(k, p) == idx_list[k][1][p]
SecondIdx(k, p) == idx_list[k][2][p]
\* The pairs of structure k as a set of triples <<i, j, offset>>.
TripleSet(k) == {<<FirstIdx(k, p), SecondIdx(k, p), offset_list[k][p]>> : p \in PairsOf(k)}
Dist2(k, a, b, off) == Norm2(VSub(VAdd(positions[k][b], off), positions[k][a]))

\* C1: every returned pair, periodic or not, is within the cutoff: the distance
\* between positions[i_p] and positions[j_p] + offsets[p] is at most r_max.
C1_PairsWithinCutoff ==
    \A k \in Processed : \A p \in PairsOf(k) :
        Dist2(k, FirstIdx(k, p), SecondIdx(k, p), offset_list[k][p]) <= r_max * r_max

\* A periodic structure got a pair through a periodic image and a non-periodic
\* structure got a pair.
C1_Witness ==
    /\ pc = "done"
    /\ \E k \in Processed : \E p \in PairsOf(k) :
          HasLattice(box[k]) /\ offset_list[k][p] # ZeroVec
    /\ \E k \in Processed : ~HasLattice(box[k]) /\ PairsOf(k) # {}

\* C2: the list of one structure is symmetric: with (i, j, offset), i # j, it
\* holds (j, i, -offset), in both branches.
C2_Symmetric ==
    \A k \in Processed : \A p \in PairsOf(k) :
        FirstIdx(k, p) # SecondIdx(k, p) =>
            \E q \in PairsOf(k) :
                /\ FirstIdx(k, q) = SecondIdx(k, p)
                /\ SecondIdx(k, q) = FirstIdx(k, p)
                /\ offset_list[k][q] = VNeg(offset_list[k][p])

\* Both branches returned a pair of two different atoms, the periodic one with a
\* nonzero offset.
C2_Witness ==
    /\ pc = "done"
    /\ \E k \in Processed : \E p \in PairsOf(k) :
          /\ HasLattice(box[k])
          /\ FirstIdx(k, p) # SecondIdx(k, p)
          /\ offset_list[k][p] # ZeroVec
    /\ \E k \in Processed : \E p \in PairsOf(k) :
          ~HasLattice(box[k]) /\ FirstIdx(k, p) # SecondIdx(k, p)

\* The ordered pairs of different atoms of structure k closer than the cutoff.
CloseOrderedPairs(k) ==
    {ab \in AtomsOf(positions[k]) \X AtomsOf(positions[k]) :
        ab[1] # ab[2] /\ Dist2(k, ab[1], ab[2], ZeroVec) < r_max * r_max}

\* C3: for an all-zero box the result is exactly the ordered pairs (i, j), i # j,
\* within the cutoff, each once, each with the zero offset, one offset row per
\* pair; atoms at (0,0,0) and (1,0,0) with cutoff 1.5 give {(0,1,0), (1,0,0)}.
C3_NonPeriodicExact ==
    \A k \in Processed :
        ~HasLattice(box[k]) =>
            /\ {<<FirstIdx(k, p), SecondIdx(k, p)>> : p \in PairsOf(k)} = CloseOrderedPairs(k)
            /\ Len(offset_list[k]) = Cardinality(CloseOrderedPairs(k))
            /\ Len(idx_list[k][1]) = Len(offset_list[k])
            /\ Len(idx_list[k][2]) = Len(offset_list[k])
            /\ \A p \in PairsOf(k) :
                  offset_list[k][p] = <<0, 0, 0>> /\ FirstIdx(k, p) # SecondIdx(k, p)
            /\ (positions[k] = (0 :> <<0, 0, 0>> @@ 1 :> <<2, 0, 0>>) /\ r_max = 3)
                  => TripleSet(k) = {<<0, 1, <<0, 0, 0>> >>, <<1, 0, <<0, 0, 0>> >>}

\* The two-atom scenario was processed, and so was a non-periodic structure with
\* a pair of atoms farther apart than the cutoff.
C3_Witness ==
    /\ \E k \in Processed :
          /\ ~HasLattice(box[k])
          /\ positions[k] = (0 :> <<0, 0, 0>> @@ 1 :> <<2, 0, 0>>)
          /\ r_max = 3
    /\ \E k \in Processed :
          /\ ~HasLattice(box[k])
          /\ NAtoms(positions[k]) = 2
          /\ CloseOrderedPairs(k) = {}

\* The extent of structure k along axis c, from the atoms themselves.
ExtentOf(k, c) ==
    SetMax({positions[k][a][c] - positions[k][b][c] :
               a \in AtomsOf(positions[k]), b \in AtomsOf(positions[k])})

\* C4: get_shrink_wrapped_cell returns the per-axis minimum as origin and a
\* diagonal cell with entries max(extent, 1.0) + 1.0, so every entry is >= 2.0
\* and every atom is inside; a single atom gives its own position and 2.0.
C4_ShrinkWrappedCell ==
    (i >= 1 /\ ~HasLattice(box[i])) =>
        /\ \A c \in Axes :
              /\ \A a \in AtomsOf(positions[i]) : cell_origin[c] <= positions[i][a][c]
              /\ \E a \in AtomsOf(positions[i]) : cell_origin[c] = positions[i][a][c]
              /\ cell[c][c] = Max2(ExtentOf(i, c), 2) + 2
              /\ cell[c][c] >= 4
              /\ \A a \in AtomsOf(positions[i]) :
                    positions[i][a][c] <= cell_origin[c] + cell[c][c]
              /\ \A r \in Axes : r # c => cell[r][c] = 0
        /\ NAtoms(positions[i]) = 1 =>
              /\ cell_origin = positions[i][0]
              /\ \A c \in Axes : cell[c][c] = 4

\* The cell was computed for a structure with an axis of extent below 1.0 that is
\* not zero and an axis of extent above 1.0.
C4_Witness ==
    /\ i >= 1
    /\ ~HasLattice(box[i])
    /\ \E c \in Axes : ExtentOf(i, c) = 1
    /\ \E c \in Axes : ExtentOf(i, c) > 2

\* The determinant of a 3x3 matrix.
Det(M) ==
      M[1][1] * (M[2][2] * M[3][3] - M[2][3] * M[3][2])
    - M[1][2] * (M[2][1] * M[3][3] - M[2][3] * M[3][1])
    + M[1][3] * (M[2][1] * M[3][2] - M[2][2] * M[3][1])

\* The cases in which the builder is said to fail with a GeometryError.
GeometryErrorCase(k) ==
    \/ r_max <= 0
    \/ NAtoms(positions[k]) < 2 /\ atoms_list[k].pbc
    \/ Det(box[k]) = 0 /\ atoms_list[k].pbc

EntryFor(k) ==
    loop_body_of(positions[k], box[k],
                 [positions |-> positions[k], cell |-> box[k], pbc |-> TRUE], r_max)

C7_CartesianOffsets ==
    (i >= 1 /\ HasLattice(box[i])) =>
        /\ Len(lattice_S) = Len(offset_list[i])
        /\ \A p \in PairsOf(i) : \A c \in Axes :
              offset_list[i][p][c] = lattice_S[p][1] * box[i][1][c]
                                       + lattice_S[p][2] * box[i][2][c]
                                       + lattice_S[p][3] * box[i][3][c]
        /\ (NAtoms(positions[i]) = 1 /\ box[i] = CubicBox /\ r_max = 5) =>
              /\ \E p \in PairsOf(i) :
                    /\ FirstIdx(i, p) = 0 /\ SecondIdx(i, p) = 0
                    /\ offset_list[i][p] # ZeroVec
              /\ \A p \in PairsOf(i) : Norm2(offset_list[i][p]) = 4 * 4

\* The single-atom scenario was processed and the atom got its periodic images.
C7_Witness ==
    /\ i >= 1
    /\ NAtoms(positions[i]) = 1
    /\ box[i] = CubicBox
    /\ r_max = 5
    /\ \E p \in PairsOf(i) : lattice_S[p] # ZeroVec /\ offset_list[i][p] # lattice_S[p]

----------------------------------------------------------------------------
\* Properties of the descriptor.

\* The pairs whose first, and whose second, index is atom a.
PairsWithFirst(a) == {p \in 1..Len(neighbor[1]) : neighbor[1][p] = a}
PairsWithSecond(a) == {p \in 1..Len(neighbor[2]) : neighbor[2][p] = a}

MomentsDone == dpc \notin {"idle", "moments"}

\* C8 as stated: the contribution of pair p is scattered into the accumulator of
\* the atom neighbor.idx[0][p], the pair's first index; the second index is
\* never the scatter target.
C8_ScatterToFirstIndex ==
    MomentsDone =>
        \A a \in 0..(n_atoms - 1) :
            /\ moments[a].scattered = PairsWithFirst(a)
            /\ \A r \in 0..(n_radial - 1) :
                  moments[a].zero[r] = SumWeights(PairsWithFirst(a), radial_function, r)

\* C8 as amended: the contribution of pair p is scattered into the accumulator
\* of the atom neighbor.idx[1][p], the pair's second index; the first index is
\* never the scatter target.
C8_ScatterToSecondIndex ==
    MomentsDone =>
        \A a \in 0..(n_atoms - 1) :
            /\ moments[a].scattered = PairsWithSecond(a)
            /\ \A r \in 0..(n_radial - 1) :
                  moments[a].zero[r] = SumWeights(PairsWithSecond(a), radial_function, r)

\* The moments were accumulated from a list in which an atom is the second index
\* of a pair and the first index of none.
C8_Witness ==
    /\ MomentsDone
    /\ \E a \in 0..(n_atoms - 1) :
          /\ PairsWithSecond(a) # {}
          /\ PairsWithFirst(a) = {}
          /\ moments[a].zero[0] > 0

NPairs(n) == (n * (n + 1)) \div 2
NTriples(n) == (n * (n + 1) * (n + 2)) \div 6
Channels == 0..(n_radial - 1)

\* The columns of atom a's row that hold entries of contraction c, and the
\* entries there.
Columns(a, c) == {f \in 1..Len(gaussian_moments[a]) : gaussian_moments[a][f][1] = c}
Entries(a, c) == {gaussian_moments[a][f] : f \in Columns(a, c)}

\* The row of every atom lists contr_0, ..., contr_7 in this order, contr_0 with
\* one column per channel, contr_4 with one per triple r <= s <= t and contr_7
\* with one per combination of three channels.
RowLayout(a) ==
    /\ \A f \in 1..Len(gaussian_moments[a]) : \A g \in 1..Len(gaussian_moments[a]) :
          f < g => gaussian_moments[a][f][1] <= gaussian_moments[a][g][1]
    /\ \A c \in 0..7 : Cardinality(Columns(a, c)) = Cardinality(Entries(a, c))
    /\ Entries(a, 0) = {<<0, r, -1, -1, a>> : r \in Channels}
    /\ Entries(a, 4) = {<<4, x[1], x[2], x[3], a>> :
                          x \in {y \in Channels \X Channels \X Channels :
                                    y[1] <= y[2] /\ y[2] <= y[3]}}
    /\ Entries(a, 7) = {<<7, x[1], x[2], x[3], a>> : x \in Channels \X Channels \X Channels}

\* Contraction c has one column per channel pair r <= s.
PairColumns(a, c) ==
    /\ Cardinality(Columns(a, c)) = NPairs(n_radial)
    /\ \A e \in Entries(a, c) : e[2] <= e[3] /\ e[5] = a

\* C9 as stated: contr_1, contr_2, contr_3, contr_5 and contr_6 are each reduced
\* to one column per channel pair r <= s, contr_4 to one per triple, contr_7
\* keeps n_radial^3, and the row is [C0, ..., C7] of width
\* F = n_radial + 5 |pairs| + |triples| + n_radial^3.
C9_FivePairReductions ==
    dpc = "done" =>
        \A a \in 0..(n_atoms - 1) :
            /\ RowLayout(a)
            /\ \A c \in {1, 2, 3, 5, 6} : PairColumns(a, c)
            /\ Len(gaussian_moments[a]) =
                  n_radial + 5 * NPairs(n_radial) + NTriples(n_radial)
                      + n_radial * n_radial * n_radial

\* C9 as amended: contr_1, contr_2 and contr_3 are reduced to one column per
\* channel pair r <= s; contr_5 and contr_6 are indexed with the 2-D set on their
\* first two channel axes and keep the third, |pairs| * n_radial columns each;
\* contr_4 has one column per triple, contr_7 n_radial^3, and the row is
\* [C0, ..., C7] of width
\* F = n_radial + 3 |pairs| + 2 |pairs| n_radial + |triples| + n_radial^3.
C9_DescriptorLayout ==
    dpc = "done" =>
        /\ DOMAIN gaussian_moments = 0..(n_atoms - 1)
        /\ \A a \in 0..(n_atoms - 1) :
            /\ RowLayout(a)
            /\ \A c \in {1, 2, 3} :
                  /\ PairColumns(a, c)
                  /\ \A e \in Entries(a, c) : e[4] = -1
            /\ \A c \in {5, 6} :
                  Entries(a, c) = {<<c, x[1], x[2], x[3], a>> :
                                     x \in {y \in Channels \X Channels \X Channels :
                                               y[1] <= y[2]}}
            /\ Len(gaussian_moments[a]) =
                  n_radial + 3 * NPairs(n_radial) + 2 * NPairs(n_radial) * n_radial
                      + NTriples(n_radial) + n_radial * n_radial * n_radial

\* The descriptor was built with more than one radial channel for more than one
\* atom.
C9_Witness ==
    /\ dpc = "done"
    /\ n_radial >= 2
    /\ n_atoms >= 2
    /\ Len(gaussian_moments[0]) = Len(gaussian_moments[1])
    /\ Cardinality(Columns(0, 5)) > NPairs(n_radial)

----------------------------------------------------------------------------
\* Properties of prefetch_to_single_device.

\* The items behind a sequence of prefetched items.
Unwrapped(seq) == [k \in 1..Len(seq) |-> seq[k].array]

\* While the generator runs with size >= 1: the queue holds at most size items,
\* what was yielded, what is queued and what the iterator still holds make up the
\* input in order, and the queue is empty at the loop test only when the iterator
\* is exhausted.
FifoState ==
    size >= 1 =>
        /\ Len(queue) <= size
        /\ Unwrapped(yielded) \o Unwrapped(queue) \o iterator = items
        /\ gpc = "suspended" => Len(queue) <= size - 1
        /\ (gpc = "enqueue" /\ yielded # <<>>) => Len(queue) + enqueue_n <= size
        /\ (gpc = "while" /\ queue = <<>>) => iterator = <<>>
        /\ gpc = "done" => Unwrapped(yielded) = items

\* C10: with size >= 1 the generator is a bounded FIFO buffer: it yields every
\* item of a finite iterator once, in the iterator's order, and then stops; the
\* queue never holds more than size items and is refilled by one item only after
\* one item was handed to the consumer.
C10_BoundedFifo == []FifoState /\ <>(gpc = "done")

\* The generator ended after it yielded more items than the buffer holds, from
\* a buffer of more than one item.
C10_Witness ==
    /\ gpc = "done"
    /\ size >= 2
    /\ Len(items) > size
    /\ Len(yielded) = Len(items)

----------------------------------------------------------------------------
\* Properties of run_nvt's outer loop.

\* What an iteration does after sim returned: with the overflow flag set it
\* leaves state, step and trajectory alone and puts a fresh, unflagged list built
\* for the position of the unadvanced state in place of the neighbor list; with
\* the flag clear it adopts the new state, adds one to step, writes the one frame
\* of the new state and keeps the neighbor list sim returned.
IterationOutcome ==
    npc = "if" =>
        IF nvt_neighbor.did_buffer_overflow
            THEN /\ state' = state
                 /\ step' = step
                 /\ traj' = traj
                 /\ nvt_neighbor'.position = state.position
                 /\ ~nvt_neighbor'.did_buffer_overflow
            ELSE /\ state' = new_state
                 /\ step' = step + 1
                 /\ Len(traj') = Len(traj) + 1
                 /\ SubSeq(traj', 1, Len(traj)) = traj
                 /\ traj'[Len(traj')] =
                        [positions |-> new_state.position, forces |-> new_state.force]
                 /\ nvt_neighbor' = nvt_neighbor

\* Outside the branch nothing touches state, step or trajectory.
OnlyBranchProgresses ==
    npc # "if" => /\ state' = state
                  /\ step' = step
                  /\ traj' = traj

\* C11: in run_nvt's outer loop an iteration whose neighbor list reports
\* did_buffer_overflow leaves the simulation state, the step counter and the
\* trajectory unchanged and only replaces the neighbor list by a fresh allocation
\* from the unadvanced state's position; an iteration without overflow adopts
\* the new state, increments step by exactly one and writes exactly one frame.
\* So the number of frames written equals step in every reachable state, and
\* the loop has exited only with step = n_steps // n_inner.
C11_OverflowMakesNoProgress ==
    /\ [][IterationOutcome /\ OnlyBranchProgresses]_vars
    /\ [](Len(traj) = step)
    /\ [](npc = "done" => step = n_steps \div n_inner)

\* The loop exited after it wrote a frame, with several inner steps per frame
\* and n_steps no multiple of n_inner, and the neighbor list allocated with extra
\* capacity was replaced on the way by one allocated without: an overflow was
\* handled.
C11_Witness ==
    /\ npc = "done"
    /\ step >= 1
    /\ n_inner >= 2
    /\ n_steps % n_inner # 0
    /\ extra_capacity > 0
    /\ nvt_neighbor.extra_capacity = 0
    /\ Len(traj) = step

====
